---- MODULE Spec2Model ----
(***************************************************************************)
(* State-machine model of the LaTeX render service (app/main.py):          *)
(* the /render pipeline (extract, entrypoint detection, latexmk with one   *)
(* recovery attempt, classification by PDF existence, storage), the        *)
(* in-memory file_metadata index with its 48 hour expiry, the download and *)
(* list handlers, and the hourly cleanup thread.                           *)
(*                                                                         *)
(* Handlers are "async def" without awaits after the upload is read, so    *)
(* one handler runs at a time on the event loop (pc); the cleanup thread   *)
(* (spc) interleaves with it at every step.                                *)
(***************************************************************************)
EXTENDS Integers, Sequences, FiniteSets, TLC

\* ------------------------------------------------------------- bounds
MaxFiles == 2      \* identifiers generated in one run of the model
MaxTime == 98      \* the clock stops advancing here (hours)
TickHours == 49    \* one step of the clock (hours): past one expiry period
MaxRuns == 12      \* the "runs" form field ranges over -MaxRuns..MaxRuns, 999

\* ---------------------------------------------------------- constants
FILE_EXPIRY_HOURS == 48
SLEEP_HOURS == 1
DEFAULT_RUNS == 3

\* ------------------------------------------------------------ strings
\* A string is a sequence of one-character strings.
UpperLetters == <<"A","B","C","D","E","F","G","H","I","J","K","L","M",
                  "N","O","P","Q","R","S","T","U","V","W","X","Y","Z">>
LowerLetters == <<"a","b","c","d","e","f","g","h","i","j","k","l","m",
                  "n","o","p","q","r","s","t","u","v","w","x","y","z">>

LowerChar(c) ==
    IF \E i \in 1..26 : UpperLetters[i] = c
    THEN LowerLetters[CHOOSE i \in 1..26 : UpperLetters[i] = c]
    ELSE c

\* str.lower()
lower(s) == [i \in 1..Len(s) |-> LowerChar(s[i])]

EndsWith(s, suf) ==
    /\ Len(s) >= Len(suf)
    /\ SubSeq(s, Len(s) - Len(suf) + 1, Len(s)) = suf

DOT_TEX == <<".","t","e","x">>
MAIN_TEX == <<"m","a","i","n",".","t","e","x">>

\* the glob pattern "*.tex" of rglob, case-sensitive as on POSIX
MatchesTexGlob(nm) == EndsWith(nm, DOT_TEX)

\* ---------------------------------------------------------- file names
n_main == MAIN_TEX
n_Main == <<"M","a","i","n",".","t","e","x">>
n_MAINU == <<"M","A","I","N",".","T","E","X">>
n_second == <<"s","e","c","o","n","d",".","t","e","x">>
n_intro == <<"i","n","t","r","o",".","t","e","x">>
n_notes == <<"n","o","t","e","s",".","t","x","t">>
n_sub == <<"s","u","b">>
n_figs_tex == <<"f","i","g","s",".","t","e","x">>
n_dotdot == <<".",".">>
n_secret == <<"s","e","c","r","e","t",".","t","e","x">>
n_absent == <<"a","b","s","e","n","t",".","t","e","x">>

\* A path is a sequence of components; Path.name is the last one.
PathName(p) == p[Len(p)]

\* The files an uploaded archive may hold (paths relative to its root); the
\* last one lies in a directory whose own name ends in ".tex".
ArchiveFiles ==
    { <<n_main>>, <<n_sub, n_Main>>, <<n_second>>, <<n_sub, n_intro>>,
      <<n_notes>>, <<n_MAINU>>, <<n_figs_tex, n_notes>> }

\* Files of the host outside every workspace (absolute paths), and files
\* beside the workspace directory (reached with a leading "..").
HostFiles == { <<n_secret>> }

\* ------------------------------------------------------ path handling
NoPath == [anchor |-> "none", parts |-> <<>>]
NoExplicit == [kind |-> "none", parts |-> <<>>]
EmptyExplicit == [kind |-> "rel", parts |-> <<>>]

\* Python truthiness of the optional entrypoint string: None and "" are false.
Truthy(explicit) == explicit.kind # "none" /\ explicit.parts # <<>>

\* pathlib.Path(workdir, explicit): an absolute second argument replaces the
\* first; ".." components are kept as written.
PathJoin(explicit) ==
    IF explicit.kind = "abs"
    THEN [anchor |-> "root", parts |-> explicit.parts]
    ELSE [anchor |-> "workdir", parts |-> explicit.parts]

\* The directories of a tree of files: every proper prefix of a file's path.
TreeDirs(tree) ==
    UNION { { SubSeq(f, 1, k) : k \in 1..(Len(f) - 1) } : f \in tree }

\* Path.exists() as the operating system resolves the joined path: a leading
\* ".." leaves the workspace.
PathExists(tree, ep) ==
    IF ep.anchor = "root" THEN ep.parts \in HostFiles
    ELSE IF ep.parts = <<>> THEN TRUE
    ELSE IF ep.parts[1] = n_dotdot THEN Tail(ep.parts) \in HostFiles
    ELSE ep.parts \in tree \/ ep.parts \in TreeDirs(tree)

\* pathlib.Path(workdir).rglob("*.tex"): every entry of the tree, file or
\* directory, whose name matches; the order is the file system's.
RglobTex(tree) ==
    { p \in tree \cup TreeDirs(tree) : MatchesTexGlob(PathName(p)) }

Listings(S) ==
    { s \in [1..Cardinality(S) -> S] :
        \A i, j \in 1..Cardinality(S) : s[i] = s[j] => i = j }

Return(ep) == [status |-> 0, detail |-> "", path |-> ep]
Raise(code, msg) == [status |-> code, detail |-> msg, path |-> NoPath]

E_NOT_FOUND == "Entrypoint not found."
E_NO_TEX == "No .tex files found in project."
E_MULTIPLE == "Multiple .tex files found; provide 'entrypoint'."

IsMainTex(p) == lower(PathName(p)) = MAIN_TEX

FirstMain(tex_files) ==
    CHOOSE i \in 1..Len(tex_files) :
        /\ IsMainTex(tex_files[i])
        /\ \A j \in 1..(i - 1) : ~IsMainTex(tex_files[j])

\* Variants of _detect_entrypoint with one rule changed; each is used to
\* show that a property below depends on that rule.
\* The cardinality check made before (instead of after) the main.tex check.
_detect_entrypoint_count_first(tree, explicit, tex_files) ==
    IF Truthy(explicit)
    THEN LET ep == PathJoin(explicit) IN
         IF ~PathExists(tree, ep) THEN Raise(400, E_NOT_FOUND) ELSE Return(ep)
    ELSE IF tex_files = <<>> THEN Raise(400, E_NO_TEX)
    ELSE IF Len(tex_files) = 1
         THEN Return([anchor |-> "workdir", parts |-> tex_files[1]])
    ELSE Raise(400, E_MULTIPLE)

\* The name compared with "main.tex" without lower().
_detect_entrypoint_case_sensitive(tree, explicit, tex_files) ==
    IF Truthy(explicit)
    THEN LET ep == PathJoin(explicit) IN
         IF ~PathExists(tree, ep) THEN Raise(400, E_NOT_FOUND) ELSE Return(ep)
    ELSE IF tex_files = <<>> THEN Raise(400, E_NO_TEX)
    ELSE IF \E i \in 1..Len(tex_files) : PathName(tex_files[i]) = MAIN_TEX
         THEN Return([anchor |-> "workdir", parts |->
                 tex_files[CHOOSE i \in 1..Len(tex_files) :
                               PathName(tex_files[i]) = MAIN_TEX]])
    ELSE IF Len(tex_files) = 1
         THEN Return([anchor |-> "workdir", parts |-> tex_files[1]])
    ELSE Raise(400, E_MULTIPLE)

\* Several candidates without a main.tex: the first is taken.
_detect_entrypoint_take_first(tree, explicit, tex_files) ==
    IF Truthy(explicit)
    THEN LET ep == PathJoin(explicit) IN
         IF ~PathExists(tree, ep) THEN Raise(400, E_NOT_FOUND) ELSE Return(ep)
    ELSE IF tex_files = <<>> THEN Raise(400, E_NO_TEX)
    ELSE IF \E i \in 1..Len(tex_files) : IsMainTex(tex_files[i])
         THEN Return([anchor |-> "workdir", parts |-> tex_files[FirstMain(tex_files)]])
    ELSE Return([anchor |-> "workdir", parts |-> tex_files[1]])

\* The single-candidate rule left out.
_detect_entrypoint_main_only(tree, explicit, tex_files) ==
    IF Truthy(explicit)
    THEN LET ep == PathJoin(explicit) IN
         IF ~PathExists(tree, ep) THEN Raise(400, E_NOT_FOUND) ELSE Return(ep)
    ELSE IF tex_files = <<>> THEN Raise(400, E_NO_TEX)
    ELSE IF \E i \in 1..Len(tex_files) : IsMainTex(tex_files[i])
         THEN Return([anchor |-> "workdir", parts |-> tex_files[FirstMain(tex_files)]])
    ELSE Raise(400, E_MULTIPLE)

\* The test for an empty listing left out.
_detect_entrypoint_no_empty_check(tree, explicit, tex_files) ==
    IF Truthy(explicit)
    THEN LET ep == PathJoin(explicit) IN
         IF ~PathExists(tree, ep) THEN Raise(400, E_NOT_FOUND) ELSE Return(ep)
    ELSE IF \E i \in 1..Len(tex_files) : IsMainTex(tex_files[i])
         THEN Return([anchor |-> "workdir", parts |-> tex_files[FirstMain(tex_files)]])
    ELSE IF Len(tex_files) = 1
         THEN Return([anchor |-> "workdir", parts |-> tex_files[1]])
    ELSE Raise(400, E_MULTIPLE)

\* A missing explicit entrypoint falls back to the scan.
_detect_entrypoint_fallback(tree, explicit, tex_files) ==
    IF Truthy(explicit) /\ PathExists(tree, PathJoin(explicit))
    THEN Return(PathJoin(explicit))
    ELSE IF tex_files = <<>> THEN Raise(400, E_NO_TEX)
    ELSE IF \E i \in 1..Len(tex_files) : IsMainTex(tex_files[i])
         THEN Return([anchor |-> "workdir", parts |-> tex_files[FirstMain(tex_files)]])
    ELSE IF Len(tex_files) = 1
         THEN Return([anchor |-> "workdir", parts |-> tex_files[1]])
    ELSE Raise(400, E_MULTIPLE)

\* _detect_entrypoint(workdir, explicit); tex_files is the listing rglob gave.
_detect_entrypoint(tree, explicit, tex_files) ==
    IF Truthy(explicit)
    THEN LET ep == PathJoin(explicit) IN
         IF ~PathExists(tree, ep) THEN Raise(400, E_NOT_FOUND) ELSE Return(ep)
    ELSE IF tex_files = <<>> THEN Raise(400, E_NO_TEX)
    ELSE IF \E i \in 1..Len(tex_files) : IsMainTex(tex_files[i])
         THEN Return([anchor |-> "workdir", parts |-> tex_files[FirstMain(tex_files)]])
    ELSE IF Len(tex_files) = 1
         THEN Return([anchor |-> "workdir", parts |-> tex_files[1]])
    ELSE Raise(400, E_MULTIPLE)

\* ------------------------------------------------------- the pass count
max(a, b) == IF a >= b THEN a ELSE b
min(a, b) == IF a <= b THEN a ELSE b

\* str(n) for an integer n: its decimal digits, with a minus sign below 0.
DigitChars == <<"0", "1", "2", "3", "4", "5", "6", "7", "8", "9">>
RECURSIVE str(_)
str(n) ==
    IF n < 0 THEN <<"-">> \o str(0 - n)
    ELSE IF n < 10 THEN <<DigitChars[n + 1]>>
    ELSE str(n \div 10) \o <<DigitChars[(n % 10) + 1]>>

\* Variant: the lower limit is forgotten.
ClampRuns_no_floor(n) == min(10, n)

\* _compile_latexmk, line 59: max(1, min(10, runs)).
ClampRuns(n) == max(1, min(10, n))

\* os.environ["LATEXMK_MAX_REPEAT"] before the first /render has set it.
NoEnv == <<>>

\* ------------------------------------------------------- request inputs
ENGINES == {"latexmk", "tectonic"}

\* The bytes of an upload: a valid archive of some files, or not an archive.
BadZip == [valid |-> FALSE, tree |-> {}]
Zip(tree) == [valid |-> TRUE, tree |-> tree]

ExplicitInputs ==
    {NoExplicit, EmptyExplicit}
    \cup { [kind |-> "rel", parts |-> p] :
             p \in ArchiveFiles
                     \cup {<<n_sub>>, <<n_absent>>, <<n_dotdot, n_secret>>} }
    \cup { [kind |-> "abs", parts |-> p] : p \in {<<n_secret>>, <<n_absent>>} }

\* Every request the resolver is examined on.
AllRequests ==
    [engine : {"latexmk"}, zip_bytes : { Zip(t) : t \in SUBSET ArchiveFiles },
     entrypoint : ExplicitInputs, runs : {DEFAULT_RUNS}]

\* The requests of the full service model.
FewRequests ==
    [engine : ENGINES,
     zip_bytes : {BadZip, Zip({}), Zip({<<n_main>>, <<n_second>>})},
     entrypoint : {NoExplicit, [kind |-> "rel", parts |-> <<n_second>>]},
     runs : {DEFAULT_RUNS}]

\* The pass counts a request may carry, and the requests the compile step is
\* examined on.
RunsInputs == (0 - MaxRuns)..MaxRuns \cup {999}
RunRequests ==
    [engine : {"latexmk"}, zip_bytes : {Zip({<<n_main>>})},
     entrypoint : {NoExplicit}, runs : RunsInputs]

\* The bytes of a compiled PDF; NoPdf: no file at pdf_path.
NoPdf == <<>>
PdfContents == {<<37>>, <<37, 80>>}

\* ----------------------------------------------------------------- state
VARIABLES
    now,            \* datetime.now(), in hours
    file_metadata,  \* the in-memory index: file_id -> metadata
    storage,        \* STORAGE_DIR: file_id -> bytes of <file_id>.pdf
    next_id,        \* the identifiers _generate_unique_id has yet to give
    pc,             \* where the event loop's current handler stands
    engine, entrypoint, zip_bytes, runs,   \* the form fields of /render
    environ,        \* os.environ["LATEXMK_MAX_REPEAT"] (NoEnv: not set)
    results,        \* history: how each latexmk run of this request ended
    workdir,        \* the request's scratch directory: none, exists, removed
    tree,           \* the files extracted into workdir
    entry,          \* the resolved entrypoint
    returncode,     \* result.returncode of the last finished latexmk run
    invocations,    \* latexmk runs started by this request
    pkg,            \* index into common_packages during recovery
    pdf,            \* the bytes at pdf_path (NoPdf: absent)
    file_id,        \* the handler's file_id
    metadata,       \* download_file's local metadata
    exc,            \* the exception render's except clause is handling
    resp,           \* the response of the current or last request
    stored,         \* history: the bytes each identifier was stored with
    undisturbed,    \* history: a cleanup pass has finished, and since then
                    \* no handler changed the store and no record expired
    l_pos, l_len,   \* list_files' iterator over file_metadata.items()
    listing,        \* list_files' files so far
    spc,            \* where the cleanup thread stands
    current_time,   \* _cleanup_expired_files' current_time
    expired_ids,    \* _cleanup_expired_files' expired_ids
    it_pos, it_len, \* the cleanup thread's iterator over file_metadata.items()
    s_i,            \* index of the identifier the second loop is at
    wake_at         \* when time.sleep(3600) returns

storeVars == <<now, file_metadata, storage, next_id, stored, undisturbed>>
compileVars == <<environ, results>>
renderVars == <<engine, entrypoint, zip_bytes, runs, workdir, tree, entry,
                returncode, invocations, pkg, pdf, exc, compileVars>>
loopVars == <<pc, file_id, metadata, resp>>
listVars == <<l_pos, l_len, listing>>
sweepVars == <<spc, current_time, expired_ids, it_pos, it_len, s_i, wake_at>>
vars == <<storeVars, renderVars, loopVars, listVars, sweepVars>>

NoMeta == [storage_path |-> 0, expires_at |-> 0, size |-> 0]
NoResp == [op |-> "none", status |-> 0, detail |-> "", file_id |-> 0,
           body |-> NoPdf, listing |-> {}]
Response(op, status, detail) ==
    [op |-> op, status |-> status, detail |-> detail, file_id |-> 0,
     body |-> NoPdf, listing |-> {}]

\* A handler changes the store: the cleanup passes before and after no
\* longer follow one another undisturbed.
StoreTouched == undisturbed' = FALSE

NoExc == [status |-> 0, detail |-> ""]
Exception(status, detail) == [status |-> status, detail |-> detail]

E_ENGINE == "engine must be 'latexmk'."
E_FAILED == "Compilation failed"

COMMON_PACKAGES == <<"tracklang", "glossaries", "biblatex", "biber">>

Init ==
    /\ now = 0
    /\ file_metadata = << >>
    /\ storage = << >>
    /\ next_id = 1
    /\ stored = << >>
    /\ undisturbed = FALSE
    /\ pc = "idle"
    /\ engine = "latexmk" /\ entrypoint = NoExplicit /\ zip_bytes = BadZip
    /\ runs = DEFAULT_RUNS /\ environ = NoEnv /\ results = << >>
    /\ workdir = "none" /\ tree = {} /\ entry = NoPath
    /\ returncode = 0 /\ invocations = 0 /\ pkg = 0 /\ pdf = NoPdf
    /\ exc = NoExc
    /\ file_id = 0 /\ metadata = NoMeta
    /\ resp = NoResp
    /\ l_pos = 0 /\ l_len = 0 /\ listing = {}
    /\ spc = "s_start"
    /\ current_time = 0 /\ expired_ids = << >>
    /\ it_pos = 0 /\ it_len = 0 /\ s_i = 0 /\ wake_at = 0

\* A handler returns (or raises): its arguments and locals are gone.  The
\* workspace directory, the last run's status and the response remain.
HandlerReturns ==
    /\ pc' = "idle"
    /\ engine' = "latexmk" /\ entrypoint' = NoExplicit /\ zip_bytes' = BadZip
    /\ runs' = DEFAULT_RUNS
    /\ tree' = {} /\ entry' = NoPath /\ pkg' = 0 /\ exc' = NoExc
    /\ file_id' = 0 /\ metadata' = NoMeta

\* A request begins: what was kept of the request before (its workspace, its
\* latexmk runs) is no longer looked at.
RequestBegins ==
    /\ workdir' = "none" /\ returncode' = 0 /\ invocations' = 0 /\ pdf' = NoPdf
    /\ results' = << >>

\* ------------------------------------------------------------- /render
\* render, lines 189-196: the engine check and the read of the upload.
render_request(requests) ==
    /\ pc = "idle"
    /\ next_id <= MaxFiles
    /\ \E r \in requests :
         IF r.engine # "latexmk"
         THEN /\ HandlerReturns
              /\ resp' = Response("render", 400, E_ENGINE)
         ELSE /\ pc' = "r_extract"
              /\ engine' = r.engine
              /\ entrypoint' = r.entrypoint
              /\ zip_bytes' = r.zip_bytes
              /\ runs' = r.runs
              /\ resp' = NoResp
              /\ tree' = {} /\ entry' = NoPath /\ pkg' = 0 /\ exc' = NoExc
              /\ file_id' = 0 /\ metadata' = NoMeta
    /\ RequestBegins
    /\ UNCHANGED <<storeVars, listVars, sweepVars, environ>>

\* _extract_zip_to_tmp, called at line 199 before the try block: mkdtemp, then
\* ZipFile raises on bytes that are no archive and the exception leaves render.
_extract_zip_to_tmp ==
    /\ pc = "r_extract"
    /\ workdir' = "exists"
    /\ IF zip_bytes.valid
       THEN /\ tree' = zip_bytes.tree
            /\ pc' = "r_detect"
            /\ resp' = resp
            /\ UNCHANGED <<engine, entrypoint, zip_bytes, runs, entry, pkg, exc,
                           file_id, metadata>>
       ELSE /\ HandlerReturns
            /\ resp' = Response("render", 500, "BadZipFile")
    /\ UNCHANGED <<listVars, sweepVars>>
    /\ UNCHANGED <<storeVars, returncode, invocations, pdf>>
    /\ UNCHANGED compileVars

\* render, line 204: entry = _detect_entrypoint(workdir, entrypoint).
render_detect ==
    /\ pc = "r_detect"
    /\ \E tex_files \in Listings(RglobTex(tree)) :
         LET r == _detect_entrypoint(tree, entrypoint, tex_files) IN
         IF r.status = 0
         THEN entry' = r.path /\ exc' = exc /\ pc' = "r_compile"
         ELSE entry' = entry /\ exc' = Exception(r.status, r.detail)
              /\ pc' = "r_except"
    /\ UNCHANGED <<listVars, sweepVars>>
    /\ UNCHANGED <<storeVars, engine, entrypoint, zip_bytes, runs, workdir, tree,
                   returncode, invocations, pkg, pdf, file_id, metadata, resp>>
    /\ UNCHANGED compileVars

\* How one subprocess.run of latexmk ended: the process exited with a
\* status, could not be launched, or never exits.
Exited(rc) == [outcome |-> "exited", returncode |-> rc]
LaunchFailed == [outcome |-> "launch failed", returncode |-> 0]
NeverExits == [outcome |-> "never exits", returncode |-> 0]

\* What one latexmk run may leave: an exit status and the file at pdf_path.
ReturnCodes == {0, 1}
PdfOutcomes == {NoPdf} \cup PdfContents

\* _compile_latexmk, lines 54-69: the pass count goes into the environment,
\* then the first run.  A launch failure raises out of _compile_latexmk into
\* render's except clause.  subprocess.run is given no timeout: while the
\* child does not exit the call does not return (pc stays "r_wait").
\* Nothing after line 204 reads entrypoint, zip_bytes or the extracted
\* listing again: they are let go here.
compile_first ==
    /\ pc = "r_compile"
    /\ entrypoint' = NoExplicit /\ zip_bytes' = BadZip /\ tree' = {}
    /\ environ' = str(ClampRuns(runs))
    /\ invocations' = invocations + 1
    /\ \/ /\ exc' = Exception(500, "launch failed")
          /\ pc' = "r_except"
          /\ results' = Append(results, LaunchFailed)
          /\ UNCHANGED <<returncode, pdf>>
       \/ /\ pc' = "r_wait"
          /\ results' = Append(results, NeverExits)
          /\ UNCHANGED <<returncode, pdf, exc>>
       \/ \E rc \in ReturnCodes, out \in PdfOutcomes :
            /\ returncode' = rc
            /\ pdf' = out
            /\ exc' = exc
            /\ results' = Append(results, Exited(rc))
            /\ pc' = IF rc # 0 THEN "r_recover" ELSE "r_classify"
    /\ UNCHANGED <<listVars, sweepVars>>
    /\ UNCHANGED <<storeVars, engine, runs, workdir, entry, pkg, file_id,
                   metadata, resp>>

\* _compile_latexmk, lines 74-77: the recovery block opens by creating
\* ~/texmf; an exception here is caught at line 97 and skips the retry.
compile_recover ==
    /\ pc = "r_recover"
    /\ \/ pkg' = 1 /\ pc' = "r_install"
       \/ pkg' = pkg /\ pc' = "r_classify"
    /\ UNCHANGED <<listVars, sweepVars>>
    /\ UNCHANGED <<storeVars, engine, entrypoint, zip_bytes, runs, workdir, tree,
                   entry, returncode, invocations, pdf, exc, file_id, metadata,
                   resp>>
    /\ UNCHANGED compileVars

InstallOutcomes == {"installed", "failed", "timeout", "launch failed"}

\* _compile_latexmk, lines 81-91: one tlmgr install; every outcome is swallowed.
compile_install ==
    /\ pc = "r_install"
    /\ \E outcome \in InstallOutcomes :
         IF pkg < Len(COMMON_PACKAGES)
         THEN pkg' = pkg + 1 /\ pc' = "r_install"
         ELSE pkg' = pkg /\ pc' = "r_retry"
    /\ UNCHANGED <<listVars, sweepVars>>
    /\ UNCHANGED <<storeVars, engine, entrypoint, zip_bytes, runs, workdir, tree,
                   entry, returncode, invocations, pdf, exc, file_id, metadata,
                   resp>>
    /\ UNCHANGED compileVars

\* _compile_latexmk, line 95: the second run, again without a timeout.  A
\* launch failure here is caught at line 97 and the first run's result is
\* kept.
compile_retry ==
    /\ pc = "r_retry"
    /\ invocations' = invocations + 1
    /\ \/ /\ results' = Append(results, LaunchFailed)
          /\ pc' = "r_classify"
          /\ UNCHANGED <<returncode, pdf>>
       \/ /\ results' = Append(results, NeverExits)
          /\ pc' = "r_wait"
          /\ UNCHANGED <<returncode, pdf>>
       \/ \E rc \in ReturnCodes, out \in PdfOutcomes :
            /\ returncode' = rc /\ pdf' = out
            /\ results' = Append(results, Exited(rc))
            /\ pc' = "r_classify"
    /\ environ' = environ
    /\ UNCHANGED <<listVars, sweepVars>>
    /\ UNCHANGED <<storeVars, engine, entrypoint, zip_bytes, runs, workdir, tree,
                   entry, pkg, exc, file_id, metadata, resp>>

\* Variant: success also requires exit status 0.
PdfExists_and_exit_zero(rc, out) == rc = 0 /\ out # NoPdf

\* render, line 211: pathlib.Path(pdf_path).exists().
PdfExists(rc, out) == out # NoPdf

\* render, lines 211-216: without a PDF the 422 response is returned from
\* inside the try block; no except clause runs.
render_classify ==
    /\ pc = "r_classify"
    /\ IF PdfExists(returncode, pdf)
       THEN /\ pc' = "r_copy"
            /\ UNCHANGED <<engine, entrypoint, zip_bytes, runs, tree, entry, pkg, exc,
                           file_id, metadata, resp>>
       ELSE /\ HandlerReturns
            /\ resp' = Response("render", 422, E_FAILED)
    /\ UNCHANGED <<listVars, sweepVars>>
    /\ UNCHANGED <<storeVars, workdir, returncode, invocations, pdf>>
    /\ UNCHANGED compileVars

\* Variant: the copy loses the last byte.
copy2_truncating(src) == SubSeq(src, 1, Len(src) - 1)

\* shutil.copy2: the bytes written at the destination.
copy2(src) == src

\* What a copy that fails part-way leaves at the destination.
Partial(src) == SubSeq(src, 1, Len(src) - 1)

\* Variant: a failure of the copy is swallowed and the record entered anyway.
render_copy_ignores_failure ==
    /\ pc = "r_copy"
    /\ file_id' = next_id
    /\ next_id' = next_id + 1
    /\ \/ storage' = (next_id :> copy2(pdf)) @@ storage
       \/ storage' = storage
       \/ storage' = (next_id :> Partial(pdf)) @@ storage
    /\ exc' = exc
    /\ pc' = "r_insert"
    /\ UNCHANGED <<listVars, sweepVars>>
    /\ StoreTouched
    /\ UNCHANGED <<now, file_metadata, stored, engine, entrypoint, zip_bytes, runs,
                   workdir, tree, entry, returncode, invocations, pkg, pdf,
                   metadata, resp>>
    /\ UNCHANGED compileVars

\* render, lines 222-235: a fresh identifier, then the copy into STORAGE_DIR.
\* shutil.copy2 may raise before it has written anything or part-way; the
\* exception goes to render's except clause.
render_copy ==
    /\ pc = "r_copy"
    /\ file_id' = next_id
    /\ next_id' = next_id + 1
    /\ \/ /\ storage' = (next_id :> copy2(pdf)) @@ storage
          /\ exc' = exc
          /\ pc' = "r_insert"
       \/ /\ \/ storage' = storage
             \/ storage' = (next_id :> Partial(pdf)) @@ storage
          /\ exc' = Exception(500, "copy failed")
          /\ pc' = "r_except"
    /\ UNCHANGED <<listVars, sweepVars>>
    /\ StoreTouched
    /\ UNCHANGED <<now, file_metadata, stored, engine, entrypoint, zip_bytes, runs,
                   workdir, tree, entry, returncode, invocations, pkg, pdf,
                   metadata, resp>>
    /\ UNCHANGED compileVars

\* render, lines 238-244: the record is entered under the identifier.
NewMetadata(id, t, size) ==
    [storage_path |-> id, expires_at |-> t + FILE_EXPIRY_HOURS, size |-> size]

render_insert ==
    /\ pc = "r_insert"
    /\ IF file_id \in DOMAIN storage
       THEN /\ file_metadata' =
                 (file_id :> NewMetadata(file_id, now, Len(storage[file_id])))
                 @@ file_metadata
            /\ stored' = (file_id :> pdf) @@ stored
            /\ exc' = exc
            /\ pc' = "r_cleanup"
       ELSE /\ UNCHANGED <<file_metadata, stored>>
            /\ exc' = Exception(500, "getsize failed")
            /\ pc' = "r_except"
    /\ StoreTouched
    /\ UNCHANGED <<listVars, sweepVars>>
    /\ UNCHANGED <<now, storage, next_id, engine, entrypoint, zip_bytes, runs,
                   workdir, tree, entry, returncode, invocations, pkg, pdf,
                   file_id, metadata, resp>>
    /\ UNCHANGED compileVars

\* render, lines 246-260: the workspace is removed and the record returned;
\* line 258 reads file_metadata[file_id] again.
render_finish ==
    /\ pc = "r_cleanup"
    /\ workdir' = "removed" /\ pdf' = NoPdf
    /\ IF file_id \in DOMAIN file_metadata
       THEN /\ HandlerReturns
            /\ resp' = [op |-> "render", status |-> 200, detail |-> "",
                        file_id |-> file_id, body |-> NoPdf, listing |-> {}]
       ELSE /\ exc' = Exception(500, "KeyError")
            /\ pc' = "r_except"
            /\ tree' = {}
            /\ UNCHANGED <<engine, entrypoint, zip_bytes, runs, entry, pkg, file_id,
                           metadata, resp>>
    /\ UNCHANGED <<listVars, sweepVars>>
    /\ UNCHANGED <<storeVars, returncode, invocations>>
    /\ UNCHANGED compileVars

\* render, lines 262-266: the except clause removes the workspace and re-raises.
render_except ==
    /\ pc = "r_except"
    /\ workdir' = "removed" /\ pdf' = NoPdf
    /\ resp' = Response("render", exc.status, exc.detail)
    /\ HandlerReturns
    /\ UNCHANGED <<listVars, sweepVars>>
    /\ UNCHANGED <<storeVars, returncode, invocations>>
    /\ UNCHANGED compileVars

RenderStep ==
    \/ _extract_zip_to_tmp
    \/ render_detect
    \/ compile_first
    \/ compile_recover
    \/ compile_install
    \/ compile_retry
    \/ render_classify
    \/ render_copy
    \/ render_insert
    \/ render_finish
    \/ render_except

\* The pipeline alone, on every archive and entrypoint of the input sets.
NextRender == render_request(AllRequests) \/ RenderStep
SpecRender == Init /\ [][NextRender]_vars

\* The pipeline on one project, with every pass count of the input set.
NextCompile == render_request(RunRequests) \/ RenderStep
SpecCompile == Init /\ [][NextCompile]_vars

\* ------------------------------------------------------------ the index
Ids == 1..MaxFiles

\* del file_metadata[id]
Without(index, id) == [k \in DOMAIN index \ {id} |-> index[k]]

\* Variant: a record counts as expired one expiry period late.
Expired_late(t, meta) == t > meta.expires_at + FILE_EXPIRY_HOURS

\* datetime.now() > metadata["expires_at"]
Expired(t, meta) == t > meta.expires_at

\* The next key a dict iterator standing at pos yields (keys are kept in
\* insertion order, which is the order the identifiers were generated in).
KeysFrom(index, pos) == { k \in DOMAIN index : k >= pos }
NextKey(index, pos) ==
    CHOOSE k \in KeysFrom(index, pos) : \A j \in KeysFrom(index, pos) : k <= j

\* ---------------------------------------------------- /files/{file_id}
E_NOT_FOUND_OR_EXPIRED == "File not found or expired"
E_EXPIRED == "File has expired and been removed"
E_NOT_ON_DISK == "File not found on disk"

\* download_file, lines 271-272.
download_request ==
    /\ pc = "idle"
    /\ \E id \in Ids :
         IF id \notin DOMAIN file_metadata
         THEN /\ HandlerReturns
              /\ resp' = [Response("download", 404, E_NOT_FOUND_OR_EXPIRED)
                            EXCEPT !.file_id = id]
         ELSE /\ pc' = "d_lookup"
              /\ file_id' = id
              /\ resp' = NoResp
              /\ UNCHANGED <<engine, entrypoint, zip_bytes, runs, tree, entry, pkg,
                             exc, metadata>>
    /\ RequestBegins
    /\ UNCHANGED <<storeVars, listVars, sweepVars, environ>>

\* A download step that returns or raises with the given response.
DownloadReturns(status, detail, body) ==
    /\ HandlerReturns
    /\ resp' = [op |-> "download", status |-> status, detail |-> detail,
                file_id |-> file_id, body |-> body, listing |-> {}]

\* download_file, line 274: metadata = file_metadata[file_id].
download_lookup ==
    /\ pc = "d_lookup"
    /\ IF file_id \in DOMAIN file_metadata
       THEN /\ metadata' = file_metadata[file_id]
            /\ pc' = "d_expiry"
            /\ UNCHANGED <<engine, entrypoint, zip_bytes, runs, tree, entry, pkg, exc,
                           file_id, resp>>
       ELSE DownloadReturns(500, "KeyError", NoPdf)
    /\ UNCHANGED <<storeVars, workdir, returncode, invocations, pdf, listVars,
                   sweepVars>>
    /\ UNCHANGED compileVars

\* download_file, line 277: the expiry test.
download_expiry ==
    /\ pc = "d_expiry"
    /\ pc' = IF Expired(now, metadata) THEN "d_evict" ELSE "d_exists"
    /\ UNCHANGED <<storeVars, renderVars, file_id, metadata, resp, listVars,
                   sweepVars>>

\* download_file, line 280: os.path.exists inside the try block.
download_evict_exists ==
    /\ pc = "d_evict"
    /\ pc' = IF metadata.storage_path \in DOMAIN storage
             THEN "d_evict_remove" ELSE "d_evict_del"
    /\ UNCHANGED <<storeVars, renderVars, file_id, metadata, resp, listVars,
                   sweepVars>>

\* download_file, line 281: os.remove; when it raises (the file is gone by
\* now, or the operating system refuses) line 283 catches it and line 282
\* is skipped.
download_evict_remove ==
    /\ pc = "d_evict_remove"
    /\ \/ /\ metadata.storage_path \in DOMAIN storage
          /\ storage' = Without(storage, metadata.storage_path)
          /\ pc' = "d_evict_del"
       \/ /\ storage' = storage
          /\ pc' = "d_gone"
    /\ StoreTouched
    /\ UNCHANGED <<now, file_metadata, next_id, stored, renderVars, file_id,
                   metadata, resp, listVars, sweepVars>>

\* download_file, line 282: del file_metadata[file_id]; a KeyError is caught.
download_evict_del ==
    /\ pc = "d_evict_del"
    /\ file_metadata' = Without(file_metadata, file_id)
    /\ pc' = "d_gone"
    /\ StoreTouched
    /\ UNCHANGED <<now, storage, next_id, stored, renderVars, file_id, metadata,
                   resp, listVars, sweepVars>>

\* download_file, line 286: HTTP 410.
download_gone ==
    /\ pc = "d_gone"
    /\ DownloadReturns(410, E_EXPIRED, NoPdf)
    /\ UNCHANGED <<storeVars, workdir, returncode, invocations, pdf, listVars,
                   sweepVars>>
    /\ UNCHANGED compileVars

\* download_file, line 289: os.path.exists for a record that has not expired.
download_exists ==
    /\ pc = "d_exists"
    /\ pc' = IF metadata.storage_path \in DOMAIN storage
             THEN "d_open" ELSE "d_repair"
    /\ UNCHANGED <<storeVars, renderVars, file_id, metadata, resp, listVars,
                   sweepVars>>

\* Variant: not-found is signalled but the record stays.
download_repair_keeps_record ==
    /\ pc = "d_repair"
    /\ file_metadata' = file_metadata
    /\ DownloadReturns(404, E_NOT_ON_DISK, NoPdf)
    /\ StoreTouched
    /\ UNCHANGED <<now, storage, next_id, stored, workdir, returncode,
                   invocations, pdf, listVars, sweepVars>>
    /\ UNCHANGED compileVars

\* download_file, lines 290-291: the record of a missing file is dropped.
download_repair ==
    /\ pc = "d_repair"
    /\ IF file_id \in DOMAIN file_metadata
       THEN /\ file_metadata' = Without(file_metadata, file_id)
            /\ DownloadReturns(404, E_NOT_ON_DISK, NoPdf)
       ELSE /\ file_metadata' = file_metadata
            /\ DownloadReturns(500, "KeyError", NoPdf)
    /\ StoreTouched
    /\ UNCHANGED <<now, storage, next_id, stored, workdir, returncode,
                   invocations, pdf, listVars, sweepVars>>
    /\ UNCHANGED compileVars

\* download_file, lines 294-303: the file is opened and streamed.
download_open ==
    /\ pc = "d_open"
    /\ IF metadata.storage_path \in DOMAIN storage
       THEN DownloadReturns(200, "", storage[metadata.storage_path])
       ELSE DownloadReturns(500, "FileNotFoundError", NoPdf)
    /\ UNCHANGED <<storeVars, workdir, returncode, invocations, pdf, listVars,
                   sweepVars>>
    /\ UNCHANGED compileVars

DownloadStep ==
    \/ download_lookup
    \/ download_expiry
    \/ download_evict_exists
    \/ download_evict_remove
    \/ download_evict_del
    \/ download_gone
    \/ download_exists
    \/ download_repair
    \/ download_open

\* ---------------------------------------------------------------- /files
\* list_files, lines 308-309: the loop over file_metadata.items() begins.
list_request ==
    /\ pc = "idle"
    /\ pc' = "l_iter"
    /\ l_pos' = 1 /\ l_len' = Cardinality(DOMAIN file_metadata) /\ listing' = {}
    /\ resp' = NoResp
    /\ RequestBegins
    /\ UNCHANGED <<storeVars, engine, entrypoint, zip_bytes, runs, tree, entry,
                   pkg, exc, environ, file_id, metadata, sweepVars>>

\* list_files, lines 309-325: one turn of the loop.  The iterator raises
\* RuntimeError when the dict has changed size since the loop began.
list_iter ==
    /\ pc = "l_iter"
    /\ IF Cardinality(DOMAIN file_metadata) # l_len
       THEN /\ HandlerReturns
            /\ resp' = Response("list", 500, "RuntimeError")
            /\ l_pos' = 0 /\ l_len' = 0 /\ listing' = {}
       ELSE IF KeysFrom(file_metadata, l_pos) = {}
       THEN /\ HandlerReturns
            /\ resp' = [Response("list", 200, "") EXCEPT !.listing = listing]
            /\ l_pos' = 0 /\ l_len' = 0 /\ listing' = {}
       ELSE /\ listing' = listing \cup {NextKey(file_metadata, l_pos)}
            /\ l_pos' = NextKey(file_metadata, l_pos) + 1
            /\ UNCHANGED <<pc, engine, entrypoint, zip_bytes, runs, tree, entry, pkg,
                           exc, file_id, metadata, resp, l_len>>
    /\ UNCHANGED <<storeVars, workdir, returncode, invocations, pdf, sweepVars>>
    /\ UNCHANGED compileVars

\* ------------------------------------------------------ the cleanup thread
handlerVars == <<renderVars, loopVars, listVars>>

\* _cleanup_expired_files, lines 122-125: the pass reads the clock and
\* begins the first loop.
cleanup_start ==
    /\ spc = "s_start"
    /\ current_time' = now
    /\ expired_ids' = << >>
    /\ it_pos' = 1 /\ it_len' = Cardinality(DOMAIN file_metadata)
    /\ spc' = "s_scan"
    /\ UNCHANGED <<storeVars, handlerVars, s_i, wake_at>>

\* _cleanup_expired_files, lines 125-127: one turn of the first loop.  A
\* RuntimeError of the iterator is caught nowhere and ends the thread.
cleanup_scan ==
    /\ spc = "s_scan"
    /\ IF Cardinality(DOMAIN file_metadata) # it_len
       THEN /\ spc' = "s_dead"
            /\ current_time' = 0 /\ expired_ids' = << >>
            /\ it_pos' = 0 /\ it_len' = 0 /\ s_i' = 0
       ELSE IF KeysFrom(file_metadata, it_pos) = {}
       THEN /\ spc' = "s_next"
            /\ s_i' = 1
            /\ it_pos' = 0 /\ it_len' = 0
            /\ UNCHANGED <<current_time, expired_ids>>
       ELSE LET k == NextKey(file_metadata, it_pos) IN
            /\ expired_ids' = IF Expired(current_time, file_metadata[k])
                              THEN Append(expired_ids, k) ELSE expired_ids
            /\ it_pos' = k + 1
            /\ UNCHANGED <<spc, s_i, current_time, it_len>>
    /\ UNCHANGED <<storeVars, handlerVars, wake_at>>

\* _cleanup_expired_files, lines 129-131: the second loop takes the next
\* identifier and reads its record; a KeyError is caught at line 136.  After
\* the last identifier the pass is over and the thread sleeps (line 144).
cleanup_next ==
    /\ spc = "s_next"
    /\ IF s_i > Len(expired_ids)
       THEN /\ spc' = "s_sleep"
            /\ wake_at' = now + SLEEP_HOURS
            /\ s_i' = 0 /\ expired_ids' = << >>
            /\ undisturbed' =
                 \A id \in DOMAIN file_metadata :
                     Expired(now, file_metadata[id])
                         => Expired(current_time, file_metadata[id])
       ELSE /\ IF expired_ids[s_i] \in DOMAIN file_metadata
               THEN spc' = "s_exists" /\ s_i' = s_i
               ELSE spc' = "s_next" /\ s_i' = s_i + 1
            /\ UNCHANGED <<wake_at, expired_ids, undisturbed>>
    /\ UNCHANGED <<now, file_metadata, storage, next_id, stored, handlerVars,
                   current_time, it_pos, it_len>>

\* _cleanup_expired_files, line 132: os.path.exists.
cleanup_exists ==
    /\ spc = "s_exists"
    /\ spc' = IF expired_ids[s_i] \in DOMAIN storage THEN "s_remove" ELSE "s_del"
    /\ UNCHANGED <<storeVars, handlerVars, current_time, expired_ids, it_pos,
                   it_len, s_i, wake_at>>

\* _cleanup_expired_files, line 133: os.remove; when it raises, line 136
\* catches it, line 134 is skipped and the loop goes on.
cleanup_remove ==
    /\ spc = "s_remove"
    /\ \/ /\ expired_ids[s_i] \in DOMAIN storage
          /\ storage' = Without(storage, expired_ids[s_i])
          /\ spc' = "s_del"
          /\ s_i' = s_i
       \/ /\ storage' = storage
          /\ spc' = "s_next"
          /\ s_i' = s_i + 1
    /\ UNCHANGED <<now, file_metadata, next_id, stored, undisturbed,
                   handlerVars, current_time, expired_ids, it_pos, it_len,
                   wake_at>>

\* _cleanup_expired_files, line 134: del file_metadata[file_id]; a KeyError
\* is caught at line 136.
cleanup_del ==
    /\ spc = "s_del"
    /\ file_metadata' = Without(file_metadata, expired_ids[s_i])
    /\ spc' = "s_next"
    /\ s_i' = s_i + 1
    /\ UNCHANGED <<now, storage, next_id, stored, undisturbed, handlerVars,
                   current_time, expired_ids, it_pos, it_len, wake_at>>

\* run_cleanup, lines 142-144: time.sleep(3600) returns, the next pass begins.
cleanup_wake ==
    /\ spc = "s_sleep"
    /\ now >= wake_at
    /\ spc' = "s_start"
    /\ wake_at' = 0 /\ current_time' = 0
    /\ UNCHANGED <<storeVars, handlerVars, expired_ids, it_pos, it_len, s_i>>

CleanupStep ==
    \/ cleanup_start
    \/ cleanup_scan
    \/ cleanup_next
    \/ cleanup_exists
    \/ cleanup_remove
    \/ cleanup_del
    \/ cleanup_wake

\* ------------------------------------------------------ the storage directory
\* STORAGE_DIR is a directory under /tmp that the service does not own
\* alone: a stored file may be removed from outside (download_file, lines
\* 288-291, provides for it).
file_removed_externally ==
    /\ \E id \in DOMAIN storage : storage' = Without(storage, id)
    /\ undisturbed' = FALSE
    /\ UNCHANGED <<now, file_metadata, next_id, stored, handlerVars, sweepVars>>

\* ---------------------------------------------------------------- clock
Tick ==
    /\ now + TickHours <= MaxTime
    /\ now' = now + TickHours
    /\ undisturbed' =
         /\ undisturbed
         /\ \A id \in DOMAIN file_metadata :
                Expired(now', file_metadata[id]) => Expired(now, file_metadata[id])
    /\ UNCHANGED <<file_metadata, storage, next_id, stored, handlerVars,
                   sweepVars>>

\* ------------------------------------------------------- the service
Next ==
    \/ render_request(FewRequests)
    \/ RenderStep
    \/ download_request
    \/ DownloadStep
    \/ list_request
    \/ list_iter
    \/ CleanupStep
    \/ file_removed_externally
    \/ Tick

Spec == Init /\ [][Next]_vars

\* ================================================================ claims
\* States right after _detect_entrypoint has returned or raised inside
\* render: the arguments (tree, entrypoint) and the outcome are all in view.
Detected == pc = "r_compile"
DetectFailed(msg) ==
    pc = "r_except" /\ invocations = 0 /\ exc = Exception(400, msg)
PostDetect == pc = "r_compile" \/ (pc = "r_except" /\ invocations = 0)

NoneGiven == ~Truthy(entrypoint)
Candidates == RglobTex(tree)
MainCandidates == { c \in Candidates : lower(PathName(c)) = MAIN_TEX }
RenderResponded == pc = "idle" /\ resp.op = "render"

\* C1: every build request that allocated a scratch workspace has removed
\* it by the time the request finishes, on every exit path.
C1_WorkspaceRemovedOnEveryExit ==
    RenderResponded => workdir # "exists"

\* C2: a retrieval that signals Expired (410) has removed the record from
\* the index, also when deleting the backing file fails, so Expired is
\* signalled once and later gets and lists do not see the identifier.
C2_ExpiredRemovesRecord ==
    (pc = "idle" /\ resp.op = "download" /\ resp.status = 410)
        => resp.file_id \notin DOMAIN file_metadata

\* C3: the build is classified as success if and only if the PDF exists when
\* _compile_latexmk has returned, whatever the exit status: the storing steps
\* are entered only with a PDF, the 422 response is given only without one,
\* and a 200 response names a stored record.
C3_ClassifiedByPdfExistence ==
    /\ pc \in {"r_copy", "r_insert", "r_cleanup"} => pdf # NoPdf
    /\ (RenderResponded /\ resp.status = 422) =>
           (pdf = NoPdf /\ resp.detail = E_FAILED)
    /\ (RenderResponded /\ resp.status = 200) =>
           (resp.file_id \in DOMAIN file_metadata
            /\ resp.file_id \in DOMAIN storage)

C3_Witness ==
    /\ RenderResponded /\ resp.status = 200
    /\ returncode # 0
    /\ resp.file_id \in DOMAIN file_metadata

C6_AmbiguousWithoutMain ==
    (PostDetect /\ NoneGiven /\ Cardinality(Candidates) >= 2
       /\ MainCandidates = {})
        => DetectFailed(E_MULTIPLE) /\ entry = NoPath

C6_Witness ==
    /\ DetectFailed(E_MULTIPLE) /\ entrypoint = NoExplicit
    /\ tree = {<<n_second>>, <<n_sub, n_intro>>, <<n_MAINU>>}

\* C7: without an explicit entrypoint, exactly one candidate, at any depth
\* and with any name: that file is returned.
C7_SingleCandidateReturned ==
    (PostDetect /\ NoneGiven /\ Cardinality(Candidates) = 1)
        => /\ Detected
           /\ entry.anchor = "workdir"
           /\ Candidates = {entry.parts}

C7_Witness ==
    /\ Detected /\ entrypoint = NoExplicit
    /\ tree = {<<n_sub, n_intro>>, <<n_notes>>}
    /\ entry = [anchor |-> "workdir", parts |-> <<n_sub, n_intro>>]

\* C8: without an explicit entrypoint and without any candidate (also for
\* an empty archive) the no-candidates error (400) is raised, and the
\* request ends without latexmk having been run.
C8_NoCandidates ==
    /\ (PostDetect /\ NoneGiven /\ Candidates = {}) => DetectFailed(E_NO_TEX)
    /\ (RenderResponded /\ resp.detail = E_NO_TEX) =>
           (resp.status = 400 /\ invocations = 0)

C8_Witness ==
    /\ RenderResponded /\ resp.status = 400 /\ resp.detail = E_NO_TEX
    /\ invocations = 0 /\ workdir = "removed"

\* C9: an explicit entrypoint that exists in the workspace is returned as
\* given, whatever its name and the other candidates; one that does not
\* exist gives the entrypoint-not-found error; the scan is never used.
ExplicitInTree == entrypoint.kind = "rel" /\ entrypoint.parts \in tree
ExplicitNowhere ==
    \/ entrypoint.kind = "rel" /\ entrypoint.parts \in ArchiveFiles \ tree
    \/ PathName(entrypoint.parts) = n_absent

C9_ExplicitEntrypoint ==
    (PostDetect /\ Truthy(entrypoint))
        => /\ ExplicitInTree =>
                (Detected /\ entry = [anchor |-> "workdir",
                                      parts |-> entrypoint.parts])
           /\ ExplicitNowhere => DetectFailed(E_NOT_FOUND)
           /\ Detected => entry.parts = entrypoint.parts
           /\ ~Detected => DetectFailed(E_NOT_FOUND)

C9_Witness ==
    /\ Detected
    /\ entrypoint = [kind |-> "rel", parts |-> <<n_second>>]
    /\ tree = {<<n_main>>, <<n_second>>}
    /\ entry = [anchor |-> "workdir", parts |-> <<n_second>>]

\* C10: a retrieval of a stored identifier that finds the record not yet
\* expired, with the record and its file not removed meanwhile, succeeds
\* and serves exactly the bytes of the compiled output that was stored.
C10_RoundTrip ==
    (/\ pc = "idle" /\ resp.op = "download"
     /\ resp.file_id \in DOMAIN file_metadata
     /\ resp.file_id \in DOMAIN storage
     /\ now <= file_metadata[resp.file_id].expires_at)
        => /\ resp.status = 200
           /\ resp.body = stored[resp.file_id]

C10_Witness ==
    /\ pc = "idle" /\ resp.op = "download" /\ resp.status = 200
    /\ resp.file_id \in DOMAIN stored
    /\ resp.body = stored[resp.file_id]
    /\ resp.body = <<37, 80>>
    /\ resp.file_id \in DOMAIN file_metadata
    /\ now <= file_metadata[resp.file_id].expires_at

\* C11: sweeping is idempotent: once a pass of _cleanup_expired_files has
\* finished, and as long as no handler changes the store and no record
\* expires, the store stays as that pass left it: a second pass removes no
\* file and no record, so it ends with the index and the stored files the
\* first pass ended with.
C11_SweepIdempotent ==
    [][(undisturbed /\ undisturbed')
          => (file_metadata' = file_metadata /\ storage' = storage)]_vars

\* C12: for every pass count a request carries (0, negative values and 999
\* among them), once _compile_latexmk has set LATEXMK_MAX_REPEAT its value
\* is the decimal numeral of a number in 1..10: the input itself when that
\* lies in 1..10, 1 when it is below, 10 when it is above.
IsDecimal(s) ==
    s # <<>> /\ \A i \in 1..Len(s) : \E d \in 1..10 : s[i] = DigitChars[d]
DigitValue(c) == CHOOSE v \in 0..9 : DigitChars[v + 1] = c
RECURSIVE ParseInt(_)
ParseInt(s) ==
    IF s = <<>> THEN 0
    ELSE 10 * ParseInt(SubSeq(s, 1, Len(s) - 1)) + DigitValue(s[Len(s)])

CompileStarted == pc \in {"r_wait", "r_recover", "r_install", "r_retry",
                          "r_classify"}

C12_PassCountClamped ==
    CompileStarted
        => /\ IsDecimal(environ)
           /\ ParseInt(environ) \in 1..10
           /\ runs \in 1..10 => ParseInt(environ) = runs
           /\ runs < 1 => ParseInt(environ) = 1
           /\ runs > 10 => ParseInt(environ) = 10

C12_Witness ==
    /\ pc = "r_classify" /\ runs = 999
    /\ environ = <<"1", "0">>
    /\ invocations = 1

\* C13: every input error of a build request (bytes that are no archive, an
\* explicit entrypoint that is missing, no candidate, an ambiguous
\* entrypoint, an unsupported engine) is answered with a 4xx status, and
\* latexmk has not been run for that request.
InputErrorDetails == {"BadZipFile", E_NOT_FOUND, E_NO_TEX, E_MULTIPLE, E_ENGINE}

C13_InputErrorsAreClientErrors ==
    (RenderResponded /\ resp.detail \in InputErrorDetails)
        => (resp.status \in 400..499 /\ invocations = 0)

\* C14: every latexmk run is bounded by a timeout: a build request that waits
\* on a child that does not exit can always take a further step (the timeout
\* ends the wait, the request fails and removes its workspace); it never
\* waits forever.
C14_CompilerRunsAreTimed ==
    pc = "r_wait" => ENABLED RenderStep

\* C15: a get that has found its record present and not expired and then
\* finds the backing file absent drops the record and answers 404 "File not
\* found on disk".  The identifier never enters the index again, a get of an
\* identifier without a record answers 404, and list_files collects indexed
\* identifiers only: later gets and lists do not see it.
GetFindsFileMissing ==
    /\ pc = "d_exists" /\ pc' # pc
    /\ metadata.storage_path \notin DOMAIN storage
GetRepairs ==
    pc = "d_repair" /\ pc' # pc /\ file_id \in DOMAIN file_metadata
MissingOnDisk(r) ==
    r.op = "download" /\ r.status = 404 /\ r.detail = E_NOT_ON_DISK
GetWithoutRecord ==
    /\ pc = "idle" /\ pc' = "idle" /\ resp' # resp /\ resp'.op = "download"
    /\ resp'.file_id \notin DOMAIN file_metadata

C15_MissingFileRepaired ==
    /\ [](pc = "idle" /\ MissingOnDisk(resp)
            => resp.file_id \notin DOMAIN file_metadata)
    /\ [][/\ GetFindsFileMissing => pc' = "d_repair"
          /\ GetRepairs => /\ MissingOnDisk(resp') /\ resp'.file_id = file_id
                           /\ file_id \notin DOMAIN file_metadata'
          /\ \A id \in DOMAIN file_metadata' \ DOMAIN file_metadata :
                id \notin DOMAIN stored
          /\ GetWithoutRecord => resp'.status = 404
          /\ listing' \subseteq listing \cup DOMAIN file_metadata]_vars

C15_Witness ==
    /\ pc = "idle" /\ MissingOnDisk(resp)
    /\ resp.file_id \in DOMAIN stored
    /\ resp.file_id \notin DOMAIN file_metadata
    /\ now < FILE_EXPIRY_HOURS

\* C16: under every interleaving of gets, puts, lists and the cleanup thread
\* each get ends with one of its defined outcomes (served, not found,
\* expired, missing on disk), each list ends with its listing, and the
\* cleanup thread is never ended by an error: nothing fails because another
\* context entered or deleted an index entry meanwhile.
C16_NoUnhandledErrors ==
    /\ (pc = "idle" /\ resp.op = "download") => resp.status \in {200, 404, 410}
    /\ (pc = "idle" /\ resp.op = "list") => resp.status = 200
    /\ spc # "s_dead"

\* C17: when _compile_latexmk has returned, latexmk was invoked exactly once
\* if the first run exited with status 0 and exactly twice if it exited with
\* another status, whatever the installs in between did; never three times.
CompileReturned == pc = "r_classify"

C17_OnceOrTwice ==
    CompileReturned
        => /\ invocations = Len(results) /\ invocations \in 1..2
           /\ results[1] = Exited(0) => invocations = 1
           /\ (results[1].outcome = "exited" /\ results[1].returncode # 0)
                  => invocations = 2

\* C18: a latexmk run that cannot be launched, the first or the second of a
\* request, raises out of _compile_latexmk: the request goes to render's
\* except clause and ends with that error, never with a classification
\* made from the earlier run's result.
LaunchHasFailed == \E i \in 1..Len(results) : results[i] = LaunchFailed
E_LAUNCH == Exception(500, "launch failed")

C18_LaunchFailurePropagates ==
    LaunchHasFailed
        => \/ pc = "r_except" /\ exc = E_LAUNCH
           \/ /\ RenderResponded
              /\ resp.status = E_LAUNCH.status /\ resp.detail = E_LAUNCH.detail

\* C19: when a pass of _cleanup_expired_files has completed, the index holds
\* no record whose expires_at is earlier than the time the pass read at its
\* start, also when removing a backing file failed.
PassCompleted == spc = "s_sleep"

C19_PassLeavesNoExpiredRecord ==
    PassCompleted
        => \A id \in DOMAIN file_metadata :
              ~(file_metadata[id].expires_at < current_time)

\* C20: no dangling index entries from eviction: a step of an eviction path
\* (the cleanup pass, or the expired branch of download_file) that deletes a
\* record's backing file removes the record from the index in the same step,
\* so that no other operation can see the entry without its file.
EvictionRemoves ==
    \/ spc = "s_remove" /\ spc' # spc
    \/ pc = "d_evict_remove" /\ pc' # pc

C20_FileAndRecordGoTogether ==
    [][EvictionRemoves
          => \A id \in DOMAIN storage \ DOMAIN storage' :
                id \notin DOMAIN file_metadata']_vars

\* C21: the cleanup thread runs for the lifetime of the process: under every
\* interleaving with puts and gets it is either asleep between two passes or
\* able to take its next step, so every pass is followed by another and an
\* expired record whose file can be removed is removed in the end.
C21_SweeperKeepsRunning ==
    spc = "s_sleep" \/ ENABLED CleanupStep

\* C22: a record enters the index only at line 238, after the copy into
\* STORAGE_DIR has completed: at the step that makes it visible its
\* storage_path names an existing file that holds all the bytes of the
\* compiled PDF, and its size is that file's; the copy step and the except
\* clause it raises into leave the index as it is.
Entered == DOMAIN file_metadata' \ DOMAIN file_metadata

C22_RecordAfterCompleteCopy ==
    [][/\ \A id \in Entered :
             /\ pc = "r_insert" /\ id = file_id
             /\ file_metadata'[id].storage_path \in DOMAIN storage
             /\ storage[file_metadata'[id].storage_path] = pdf
             /\ file_metadata'[id].size = Len(pdf)
       /\ (pc \in {"r_copy", "r_except"} /\ pc' # pc) => Entered = {}]_vars

C22_Witness ==
    /\ pc = "r_cleanup" /\ file_id \in DOMAIN file_metadata
    /\ file_metadata[file_id].storage_path \in DOMAIN storage
    /\ storage[file_metadata[file_id].storage_path] = <<37, 80>>
    /\ pdf = <<37, 80>>

\* C23: every path _detect_entrypoint returns lies inside the request's
\* workspace: an explicit entrypoint that is absolute, or that leaves the
\* workspace through "..", is answered with the entrypoint-not-found error
\* even when a file exists at the place it names.
InsideWorkdir(ep) ==
    /\ ep.anchor = "workdir"
    /\ \A i \in 1..Len(ep.parts) : ep.parts[i] # n_dotdot

C23_EntryInsideWorkspace ==
    /\ Detected => InsideWorkdir(entry)
    /\ (PostDetect /\ Truthy(entrypoint) /\ ~InsideWorkdir(PathJoin(entrypoint)))
          => DetectFailed(E_NOT_FOUND)

\* C24: an artifact is never served after its expiry.  A get passes its
\* expiry test (line 277) only at a time that is not after the expires_at
\* of the record it read from the index; bytes are served only by a get
\* that passed this test, for that same record; and the expires_at of a
\* record in the index never changes.
GetServes ==
    resp' # resp /\ resp'.op = "download" /\ resp'.status = 200

C24_NeverServedAfterExpiry ==
    [][/\ (pc = "d_lookup" /\ pc' = "d_expiry")
             => metadata' = file_metadata[file_id]
       /\ (pc = "d_expiry" /\ pc' = "d_exists") => now <= metadata.expires_at
       /\ (pc' = "d_exists" /\ pc # "d_exists") => pc = "d_expiry"
       /\ (pc' = "d_open" /\ pc # "d_open") => pc = "d_exists"
       /\ (pc \in {"d_expiry", "d_exists", "d_open"}
              /\ pc' \in {"d_expiry", "d_exists", "d_open"})
             => (metadata' = metadata /\ file_id' = file_id)
       /\ GetServes => /\ pc = "d_open" /\ resp'.file_id = file_id
                       /\ resp'.body = storage[metadata.storage_path]
       /\ \A id \in DOMAIN file_metadata \cap DOMAIN file_metadata' :
             file_metadata'[id].expires_at = file_metadata[id].expires_at]_vars

C24_Witness ==
    /\ pc = "idle" /\ resp.op = "download" /\ resp.status = 200
    /\ now = TickHours
    /\ resp.file_id \in DOMAIN file_metadata
    /\ file_metadata[resp.file_id].expires_at = TickHours + FILE_EXPIRY_HOURS

====
